---- MODULE Spec2Model ----
(***************************************************************************)
(* Spaced-repetition core of lang-bot: the SM-2 review calculator          *)
(* (bot/core/spaced_repetition.py), the review transaction of              *)
(* LearningService.process_card_review run inside the per-update database  *)
(* session (bot/database/engine.py get_session), and the quality-rating    *)
(* handler that drives it (bot/telegram/handlers/learning.py).             *)
(* Also the card operations of CardService (content update, deletion) and  *)
(* the session mix of bot/core/card_scheduler.py.                          *)
(*                                                                         *)
(* Representation.  Ease factors are Python floats in the source; here     *)
(* they are exact thousandths (2.5 is 2500), so int(x) of a product is an  *)
(* integer division.  Binary rounding of the floats is not represented.    *)
(* Times are whole days, so current_time + timedelta(days=n) is t + n.     *)
(***************************************************************************)
EXTENDS Integers, Sequences, FiniteSets, TLC

(***************************************************************************)
(* bot/core/constants.py                                                   *)
(***************************************************************************)
DEFAULT_EASE_FACTOR == 2500
MIN_EASE_FACTOR == 1300
EASE_FACTOR_MODIFIER == 150
INITIAL_INTERVAL_AGAIN == 0
INITIAL_INTERVAL_HARD == 1
INITIAL_INTERVAL_GOOD == 1
INITIAL_INTERVAL_EASY == 4
QUALITY_AGAIN == 0
QUALITY_HARD == 2
QUALITY_GOOD == 3
QUALITY_EASY == 5
HARD_INTERVAL_MULTIPLIER == 1200
EASE_BONUS == 1300
MAX_INTERVAL_DAYS == 365
\* the literal 3.0 of validate_srs_result
MAX_VALID_EASE_FACTOR == 3000
\* the literal 6 of the second Good review
SECOND_INTERVAL_GOOD == 6
\* the literal 3 of "1 new card for every 3 review cards"
REVIEWS_PER_NEW == 3

(***************************************************************************)
(* Bounds of the model                                                     *)
(***************************************************************************)
\* ease factors given to the calculator: 1.0, 1.05, ... (MaxEaseSteps steps)
MaxEaseSteps == 42
\* repetition counts given to the calculator: 0..MaxRepetitions
MaxRepetitions == 2
\* quality ratings given to the calculator: 0..MaxQuality
MaxQuality == 5
\* a new review starts only while fewer than MaxReviews are committed
MaxReviews == 4
\* lists given to mix: 0..MaxNewCards new cards and 0..MaxDueCards due cards
MaxNewCards == 5
MaxDueCards == 9
\* limits given to mix: 0..MaxNewLimit and 0..MaxTotalLimit
MaxNewLimit == 6
MaxTotalLimit == 20

Max(a, b) == IF a >= b THEN a ELSE b
Min(a, b) == IF a <= b THEN a ELSE b

EaseInputs == {1000 + 50 * k : k \in 0..MaxEaseSteps}
QualityInputs == 0..MaxQuality
\* the current_time of every call: one day after the cards were created
Times == {1}
\* a later current_time injected into a direct call of the calculator, and the
\* ease factors it is combined with
LaterTimes == {8}
LaterEaseInputs == {MIN_EASE_FACTOR, DEFAULT_EASE_FACTOR}

(***************************************************************************)
(* SRSResult, and the ValueError the calculator raises instead of a result *)
(***************************************************************************)
SRSResult(ef, iv, reps, nr) ==
    [error |-> "none", ease_factor |-> ef, interval |-> iv,
     repetitions |-> reps, next_review |-> nr]

ValueError(msg) ==
    [error |-> msg, ease_factor |-> 0, interval |-> 0,
     repetitions |-> 0, next_review |-> 0]

\* the qualities the validation of calculate_next_review lets through
AcceptedQualities == {QUALITY_AGAIN, QUALITY_HARD, QUALITY_GOOD, QUALITY_EASY}

\* SM-2: EF' = EF + (0.1 - (5 - q) * (0.08 + (5 - q) * 0.02)), floored
sm2_ease_factor(quality, ease_factor) ==
    IF quality >= QUALITY_GOOD
    THEN Max(ease_factor + (100 - (5 - quality) * (80 + (5 - quality) * 20)),
             MIN_EASE_FACTOR)
    ELSE ease_factor

\* variant: the Easy bonus is left out
easy_interval_no_bonus(interval, new_ease_factor) ==
    (interval * new_ease_factor) \div 1000

\* the interval of the Easy branch, from the ease factor held at that line
easy_interval(interval, new_ease_factor) ==
    (interval * new_ease_factor * EASE_BONUS) \div 1000000

\* variant: round() in place of int()
good_interval_rounded(interval, new_ease_factor) ==
    (interval * new_ease_factor + 500) \div 1000

\* the interval of the Good branch on a subsequent review
good_interval(interval, new_ease_factor) ==
    (interval * new_ease_factor) \div 1000

\* variant: the ease factor of a failed card is not floored
again_ease_factor_unfloored(ease_factor) == ease_factor - EASE_FACTOR_MODIFIER

\* "Reduce ease factor for failed cards"
again_ease_factor(ease_factor) ==
    Max(ease_factor - EASE_FACTOR_MODIFIER, MIN_EASE_FACTOR)

\* variant: the days are counted from the creation time 0, not from current_time
next_review_at_epoch(current_time, new_interval) == new_interval

\* "Calculate next review datetime": current_time + timedelta(days=new_interval)
next_review_at(current_time, new_interval) == current_time + new_interval

\* variant: the cap is left out
cap_interval_none(new_interval) == new_interval

\* Cap the interval at maximum
cap_interval(new_interval) == Min(new_interval, MAX_INTERVAL_DAYS)

calculate_next_review(quality, ease_factor, interval, repetitions, current_time) ==
    IF quality \notin AcceptedQualities
    THEN ValueError("InvalidQuality")
    ELSE
    LET cand == sm2_ease_factor(quality, ease_factor)
        r == IF quality = QUALITY_AGAIN
             THEN [iv |-> INITIAL_INTERVAL_AGAIN, reps |-> 0,
                   ef |-> again_ease_factor(ease_factor)]
             ELSE IF quality = QUALITY_HARD
             THEN [iv |-> IF repetitions = 0 THEN INITIAL_INTERVAL_HARD
                          ELSE (interval * HARD_INTERVAL_MULTIPLIER) \div 1000,
                   reps |-> IF repetitions = 0 THEN 1 ELSE repetitions + 1,
                   ef |-> Max(ease_factor - EASE_FACTOR_MODIFIER \div 2,
                              MIN_EASE_FACTOR)]
             ELSE IF quality = QUALITY_GOOD
             THEN [iv |-> IF repetitions = 0 THEN INITIAL_INTERVAL_GOOD
                          ELSE IF repetitions = 1 THEN SECOND_INTERVAL_GOOD
                          ELSE good_interval(interval, cand),
                   reps |-> IF repetitions = 0 THEN 1
                            ELSE IF repetitions = 1 THEN 2
                            ELSE repetitions + 1,
                   ef |-> cand]
             ELSE [iv |-> IF repetitions = 0 THEN INITIAL_INTERVAL_EASY
                          ELSE easy_interval(interval, cand),
                   reps |-> IF repetitions = 0 THEN 1 ELSE repetitions + 1,
                   ef |-> ease_factor + EASE_FACTOR_MODIFIER]
        new_interval == cap_interval(r.iv)
    IN SRSResult(r.ef, new_interval, r.reps,
                 next_review_at(current_time, new_interval))

(***************************************************************************)
(* Rows of the cards table (the SRS columns and the counters) and of the   *)
(* reviews table                                                           *)
(***************************************************************************)
CardIds == {1, 2}
UserIds == {7}
\* two updates can be handled at once, each in its own session
Handlers == {1, 2}
ReviewQualities == {QUALITY_AGAIN, QUALITY_GOOD, 4, QUALITY_EASY}

CardRow(ex, ef, iv, reps, nr, total, correct) ==
    [exists |-> ex, ease_factor |-> ef, interval |-> iv, repetitions |-> reps,
     next_review |-> nr, total_reviews |-> total, correct_reviews |-> correct]

\* Card column defaults and get_initial_srs_values, created at time 0
NewCard == CardRow(TRUE, DEFAULT_EASE_FACTOR, 0, 0, 0, 0, 0)
NoCard == CardRow(FALSE, 0, 0, 0, 0, 0, 0)

validate_srs_result(result) ==
    IF result.ease_factor < MIN_EASE_FACTOR
       \/ result.ease_factor > MAX_VALID_EASE_FACTOR
    THEN FALSE
    ELSE IF result.interval < 0 \/ result.interval > MAX_INTERVAL_DAYS
    THEN FALSE
    ELSE IF result.repetitions < 0
    THEN FALSE
    ELSE TRUE

\* variant: the snapshot is taken from the new values
snapshot_after(card, srs_result) ==
    [ease_factor_before |-> srs_result.ease_factor,
     interval_before |-> srs_result.interval]

\* "Store state before review (for analytics)"
snapshot_before(card, srs_result) ==
    [ease_factor_before |-> card.ease_factor, interval_before |-> card.interval]

\* "Update card with new SRS values" and "Update statistics"
update_card(card, srs_result, quality) ==
    [card EXCEPT !.ease_factor = srs_result.ease_factor,
                 !.interval = srs_result.interval,
                 !.repetitions = srs_result.repetitions,
                 !.next_review = srs_result.next_review,
                 !.total_reviews = @ + 1,
                 !.correct_reviews = IF quality >= 3 THEN @ + 1 ELSE @]

\* variant: the result is validated after it was assigned to the card
card_on_error_assigned(card, srs_result, quality) ==
    update_card(card, srs_result, quality)

\* what a failing call leaves of the card object it loaded
card_on_error(card, srs_result, quality) == card

\* process_card_review between "get card" and the flush: no await in between
apply_review(card, quality, current_time) ==
    IF ~card.exists
    THEN [error |-> "CardNotFound", card |-> card,
          before |-> snapshot_before(card, ValueError("CardNotFound"))]
    ELSE
    LET srs_result == calculate_next_review(quality, card.ease_factor,
                          card.interval, card.repetitions, current_time)
        before == snapshot_before(card, srs_result)
    IN  IF srs_result.error # "none"
        THEN [error |-> srs_result.error, card |-> card, before |-> before]
        ELSE IF ~validate_srs_result(srs_result)
        THEN [error |-> "InvalidResult",
              card |-> card_on_error(card, srs_result, quality),
              before |-> before]
        ELSE [error |-> "none", card |-> update_card(card, srs_result, quality),
              before |-> before]

\* the UPDATE the unit of work emits on flush: it sets only the columns whose
\* attribute differs from the value loaded, on the row as it is at that time
flush_row(row, loaded, card) ==
    [f \in DOMAIN row |-> IF card[f] # loaded[f] THEN card[f] ELSE row[f]]

\* review_repo.create(...) arguments
ReviewRecord(card_id, user_id, quality, reviewed_at, before) ==
    [card_id |-> card_id, user_id |-> user_id, quality |-> quality,
     reviewed_at |-> reviewed_at,
     ease_factor_before |-> before.ease_factor_before,
     interval_before |-> before.interval_before]

NoBefore == [ease_factor_before |-> 0, interval_before |-> 0]

\* a handler slot with no update being processed
IdleHandler ==
    [pc |-> "idle", card_id |-> 1, user_id |-> 7, quality |-> 0, now |-> 0,
     loaded |-> NoCard, card |-> NoCard, before |-> NoBefore,
     flushed |-> FALSE, review |-> <<>>, err |-> "none"]

(***************************************************************************)
(* Content columns of the cards table, and CardService.update_card         *)
(***************************************************************************)
\* Python's None
None == "None"

ContentRow(front, back, example, notes) ==
    [front |-> front, back |-> back, example |-> example, notes |-> notes]

\* CardService.create_card(deck_id, front, back) with the optional texts left out
NewContent == ContentRow("f0", "b0", None, None)
NoContent == ContentRow(None, None, None, None)

\* the texts an update can carry
FrontInputs == {None, "f1"}
BackInputs == {None, "b1"}
ExampleInputs == {None, "e1"}
NotesInputs == {None, "n1"}

\* the update_data dictionary CardService.update_card builds
update_data(front, back, example, notes, clear_example) ==
    LET keys == {k \in {"front", "back", "example", "notes"} :
                    \/ k = "front" /\ front # None
                    \/ k = "back" /\ back # None
                    \/ k = "example" /\ (clear_example \/ example # None)
                    \/ k = "notes" /\ notes # None}
    IN [k \in keys |->
          IF k = "front" THEN front
          ELSE IF k = "back" THEN back
          ELSE IF k = "example" THEN (IF clear_example THEN None ELSE example)
          ELSE notes]

\* variant: an update also puts the card back to an interval of 0
repo_update_rescheduling(instance, kwargs) ==
    [f \in DOMAIN instance |->
        IF f \in DOMAIN kwargs THEN kwargs[f]
        ELSE IF f = "interval" THEN 0
        ELSE instance[f]]

\* BaseRepository.update: setattr for every key the instance has, then flush
\* and refresh
repo_update(instance, kwargs) ==
    [f \in DOMAIN instance |->
        IF f \in DOMAIN kwargs THEN kwargs[f] ELSE instance[f]]

\* the Card instance of a row: its SRS columns, counters and content columns
card_instance(row, texts) == row @@ texts

(***************************************************************************)
(* Lists of cards given to mix_new_and_review_cards                        *)
(***************************************************************************)
MixArgs(new_cards, review_cards, new_cards_limit, total_limit) ==
    [new_cards |-> new_cards, review_cards |-> review_cards,
     new_cards_limit |-> new_cards_limit, total_limit |-> total_limit]

NoMixArgs == MixArgs(<<>>, <<>>, 0, 0)

\* what get_new_cards returns: n cards with repetitions = 0
NewCards(n) == [i \in 1..n |-> [id |-> 100 + i, repetitions |-> 0]]
\* what get_due_cards returns, prioritized: d cards with repetitions > 0
DueCards(d) == [j \in 1..d |-> [id |-> j, repetitions |-> 1]]

\* Python's s[:stop]: a negative stop counts from the end of the list
slice_to(s, stop) ==
    SubSeq(s, 1, IF stop < 0 THEN Max(Len(s) + stop, 0) ELSE Min(stop, Len(s)))

\* variant: two review cards are taken before each new card
review_batch_two(selected_review, review_idx) ==
    Min(2, Len(selected_review) - review_idx)

\* "for _ in range(3)": how many review cards the inner loop appends
review_batch(selected_review, review_idx) ==
    Min(REVIEWS_PER_NEW, Len(selected_review) - review_idx)

RECURSIVE interleave(_, _, _, _, _)
\* the while loop: up to 3 review cards, then one new card
interleave(selected_new, selected_review, new_idx, review_idx, result) ==
    IF ~(new_idx < Len(selected_new) \/ review_idx < Len(selected_review))
    THEN result
    ELSE LET k == review_batch(selected_review, review_idx)
             with_review == result \o SubSeq(selected_review, review_idx + 1,
                                             review_idx + k)
             add_new == new_idx < Len(selected_new)
         IN interleave(selected_new, selected_review,
                       IF add_new THEN new_idx + 1 ELSE new_idx,
                       review_idx + k,
                       IF add_new
                       THEN Append(with_review, selected_new[new_idx + 1])
                       ELSE with_review)

\* variant: the interleaved list is returned whole
truncate_result_none(result, total_limit) == result

\* return result[:total_limit]
truncate_result(result, total_limit) == slice_to(result, total_limit)

mix_new_and_review_cards(new_cards, review_cards, new_cards_limit, total_limit) ==
    LET selected_new == slice_to(new_cards, new_cards_limit)
        remaining_slots == total_limit - Len(selected_new)
        selected_review == slice_to(review_cards, remaining_slots)
    IN truncate_result(interleave(selected_new, selected_review, 0, 0, <<>>),
                       total_limit)

(***************************************************************************)
(* Card scheduling: prioritize_cards and get_next_card_for_learning.       *)
(* A datetime is a number of ticks of half a second since the Unix epoch   *)
(***************************************************************************)
TicksPerSecond == 2

\* the earliest datetime a card carries: the bot is deployed long after the
\* epoch, and every datetime of a card lies in a short window after that
SchedEpoch == 100
MaxSchedTicks == 4
MaxSchedLen == 3
MaxDeckLen == 2

SchedTimes == SchedEpoch..(SchedEpoch + MaxSchedTicks)

SchedCard(id, repetitions, next_review, created_at) ==
    [id |-> id, repetitions |-> repetitions, next_review |-> next_review,
     created_at |-> created_at]

\* Python's None where a card is expected
NoSchedCard == SchedCard(0, 0, 0, 0)

\* the cards a list can hold at one position: new ones by creation time,
\* reviewed ones by next review
SchedCardsAt(i) ==
    {SchedCard(i, 0, created_at, created_at) : created_at \in SchedTimes}
    \cup {SchedCard(i, 1, next_review, SchedEpoch) : next_review \in SchedTimes}

RECURSIVE SchedListsOf(_)
SchedListsOf(n) ==
    IF n = 0 THEN {<<>>}
    ELSE {Append(l, c) : l \in SchedListsOf(n - 1), c \in SchedCardsAt(n)}

SchedLists(max_len) == UNION {SchedListsOf(n) : n \in 0..max_len}

\* int(x) of a number of seconds given in ticks: truncation toward zero
int_seconds(ticks) ==
    IF ticks >= 0 THEN ticks \div TicksPerSecond
    ELSE -((-ticks) \div TicksPerSecond)

\* variant: an overdue card scores the seconds it is overdue
calculate_priority_late(card, current_time) ==
    IF card.repetitions = 0
    THEN int_seconds(-card.created_at)
    ELSE LET time_diff == current_time - card.next_review
         IN IF time_diff > 0
            THEN int_seconds(time_diff)
            ELSE int_seconds(-time_diff)

\* _calculate_priority: "Lower number = higher priority"
calculate_priority(card, current_time) ==
    IF card.repetitions = 0
    THEN int_seconds(-card.created_at)
    ELSE LET time_diff == current_time - card.next_review
         IN IF time_diff > 0
            THEN -int_seconds(time_diff)
            ELSE int_seconds(-time_diff)

\* one step of list.sort(key=priority): the sort is stable, so an element goes
\* behind every element whose priority is not greater
insert_by_priority(sorted, sc) ==
    LET k == Cardinality({i \in DOMAIN sorted :
                             sorted[i].priority <= sc.priority})
    IN SubSeq(sorted, 1, k) \o <<sc>> \o SubSeq(sorted, k + 1, Len(sorted))

RECURSIVE sort_scheduled(_)
sort_scheduled(scheduled_cards) ==
    IF scheduled_cards = <<>> THEN <<>>
    ELSE insert_by_priority(
             sort_scheduled(SubSeq(scheduled_cards, 1, Len(scheduled_cards) - 1)),
             scheduled_cards[Len(scheduled_cards)])

prioritize_cards(cards_list, current_time) ==
    LET scheduled_cards ==
            [i \in DOMAIN cards_list |->
                [card |-> cards_list[i],
                 priority |-> calculate_priority(cards_list[i], current_time)]]
        sorted == sort_scheduled(scheduled_cards)
    IN [i \in DOMAIN sorted |-> sorted[i].card]

\* Card.is_due: datetime.now(UTC) >= self.next_review, on the clock of the
\* machine at the moment of the call
is_due(card, clock) == clock >= card.next_review

\* get_next_card_for_learning(deck_cards, current_time), called when the clock
\* of the machine shows clock
get_next_card_for_learning(deck_cards, current_time, clock) ==
    IF deck_cards = <<>> THEN NoSchedCard
    ELSE LET new_cards == SelectSeq(deck_cards, LAMBDA c : c.repetitions = 0)
             due_cards == SelectSeq(deck_cards,
                              LAMBDA c : c.repetitions > 0 /\ is_due(c, clock))
             prioritized == prioritize_cards(due_cards \o new_cards, current_time)
         IN IF prioritized # <<>> THEN prioritized[1] ELSE NoSchedCard

SchedArgs(cards_list, current_time) ==
    [cards |-> cards_list, current_time |-> current_time]

NoSchedArgs == SchedArgs(<<>>, 0)

(***************************************************************************)
(* LearningService.get_learning_session on a deck of new and reviewed cards *)
(***************************************************************************)
DEFAULT_CARDS_PER_SESSION == 20
MAX_NEW_CARDS_PER_DAY == 20

MaxDeckNew == 21
MaxDeckReviewed == 3

Deck(new, reviewed) == [new |-> new, reviewed |-> reviewed]

\* the cards of a deck with repetitions == 0
DeckNewCards(deck) ==
    [i \in 1..deck.new |-> SchedCard(100 + i, 0, SchedEpoch, SchedEpoch)]

\* the cards of a deck with repetitions > 0, one next_review apart
DeckReviewedCards(deck) ==
    [j \in 1..deck.reviewed |->
        SchedCard(j, 1, SchedEpoch + (j - 1), SchedEpoch)]

\* CardRepository.get_new_cards: repetitions == 0, LIMIT limit
get_new_cards(deck, limit) == slice_to(DeckNewCards(deck), limit)

\* CardRepository.get_due_cards: next_review <= now and repetitions > 0,
\* ORDER BY next_review, LIMIT limit
get_due_cards(deck, limit, current_time) ==
    slice_to(SelectSeq(DeckReviewedCards(deck),
                       LAMBDA c : c.next_review <= current_time), limit)

get_learning_session(deck, max_cards, max_new_cards, current_time) ==
    LET new_cards == get_new_cards(deck, max_new_cards)
        due_cards == prioritize_cards(get_due_cards(deck, max_cards, current_time),
                                      current_time)
    IN mix_new_and_review_cards(new_cards, due_cards, max_new_cards, max_cards)

SessionArgs(deck, current_time) == [deck |-> deck, current_time |-> current_time]

NoSessionArgs == SessionArgs(Deck(0, 0), 0)

(***************************************************************************)
(* The learning session kept in the FSM storage (handlers/learning.py)     *)
(***************************************************************************)
MaxLearnEvents == 3
MaxLearnReviews == 4

\* the keys of the session data the handlers read and write
SessionData(card_ids, current_index, cards_reviewed, correct_count, current_card_id) ==
    [active |-> TRUE, card_ids |-> card_ids, current_index |-> current_index,
     cards_reviewed |-> cards_reviewed, correct_count |-> correct_count,
     current_card_id |-> current_card_id]

\* the data after state.clear(), and before any session was started
NoSessionData ==
    [active |-> FALSE, card_ids |-> <<>>, current_index |-> 0,
     cards_reviewed |-> 0, correct_count |-> 0, current_card_id |-> 0]

\* the lists of card ids a session can be started with: cards of the deck that
\* are new or due at that moment, each once
CardIdLists == UNION {[1..n -> CardIds] : n \in 1..Cardinality(CardIds)}

SessionCardIds(rows) ==
    {l \in CardIdLists :
        /\ \A i \in DOMAIN l : rows[l[i]].exists
        /\ \A i, j \in DOMAIN l : i # j => l[i] # l[j]}

\* show_card_front up to its Telegram call: the session data it leaves, and
\* how many cards it skipped because they no longer exist; at the end of the
\* list it is end_learning_session, which clears the data
RECURSIVE show_card_front(_, _)
show_card_front(data, rows) ==
    IF data.current_index >= Len(data.card_ids)
    THEN [data |-> NoSessionData, skips |-> 0]
    ELSE LET card_id == data.card_ids[data.current_index + 1]
         IN IF ~rows[card_id].exists
            THEN LET rest == show_card_front(
                                 [data EXCEPT !.current_index = @ + 1], rows)
                 IN [data |-> rest.data, skips |-> rest.skips + 1]
            ELSE [data |-> [data EXCEPT !.current_card_id = card_id],
                  skips |-> 0]

VARIABLES
    cards,        \* committed rows of the cards table, by id
    reviews,      \* committed rows of the reviews table, in insert order
    card_writes,  \* per card, how many committed reviews updated its row
    content,      \* committed content columns of the cards table, by id
    tx,           \* per handler: position, arguments and session contents
    calc_pc,   \* "off" | "call" | "returned": the position of a direct call
    calc_in,   \* the arguments of the call
    calc_out,  \* the SRSResult returned, or the ValueError raised
    mix_pc,    \* "off" | "call" | "returned": the position of a call of mix
    mix_in,    \* the arguments of the call
    mix_out,   \* the list returned
    prio_pc,   \* "off" | "call" | "returned": a call of prioritize_cards
    prio_in,   \* the arguments of the call
    prio_out,  \* the list returned
    next_pc,   \* "off" | "on": calls of get_next_card_for_learning are made
    next_in,   \* the arguments every one of these calls is given
    wall_clock,  \* what datetime.now(UTC) returns
    next_calls,  \* the cards the calls made so far returned
    sess_pc,   \* "off" | "call" | "returned": a call of get_learning_session
    sess_in,   \* the deck and the moment of the call
    sess_out,  \* the list of cards returned
    learn_pc,  \* "off" | "on": learning sessions are held
    fsm,       \* the session data of the user in the FSM storage
    learn_events,    \* ratings and skips handled since the session started
    learn_committed  \* audit records committed for ratings of the session

vars == <<cards, reviews, card_writes, content, tx, calc_pc, calc_in, calc_out,
          mix_pc, mix_in, mix_out, prio_pc, prio_in, prio_out,
          next_pc, next_in, wall_clock, next_calls,
          sess_pc, sess_in, sess_out,
          learn_pc, fsm, learn_events, learn_committed>>
dbvars == <<cards, reviews, card_writes, content, tx>>
calcvars == <<calc_pc, calc_in, calc_out>>
mixvars == <<mix_pc, mix_in, mix_out>>
priovars == <<prio_pc, prio_in, prio_out>>
nextvars == <<next_pc, next_in, wall_clock, next_calls>>
\* the variables of the scheduling and session specifications
sessvars == <<sess_pc, sess_in, sess_out>>
learnvars == <<learn_pc, fsm, learn_events, learn_committed>>
extvars == <<priovars, nextvars, sessvars, learnvars>>

CalcArgs(q, ef, iv, reps, now) ==
    [quality |-> q, ease_factor |-> ef, interval |-> iv,
     repetitions |-> reps, current_time |-> now]

NoArgs == CalcArgs(0, 0, 0, 0, 0)

(***************************************************************************)
(* SpecCalc: calculate_next_review called directly on bounded arguments    *)
(***************************************************************************)
InitDb ==
    /\ cards = [c \in CardIds |-> IF c = 1 THEN NewCard ELSE NoCard]
    /\ reviews = <<>>
    /\ card_writes = [c \in CardIds |-> 0]
    /\ content = [c \in CardIds |-> IF c = 1 THEN NewContent ELSE NoContent]
    /\ tx = [t \in Handlers |-> IdleHandler]

\* no call of the calculator is in progress
CalcOff ==
    /\ calc_pc = "off"
    /\ calc_in = NoArgs
    /\ calc_out = ValueError("pending")

\* no call of mix_new_and_review_cards is in progress
MixOff ==
    /\ mix_pc = "off"
    /\ mix_in = NoMixArgs
    /\ mix_out = <<>>

\* no call of prioritize_cards is in progress
PrioOff ==
    /\ prio_pc = "off"
    /\ prio_in = NoSchedArgs
    /\ prio_out = <<>>

\* no calls of get_next_card_for_learning are made
NextOff ==
    /\ next_pc = "off"
    /\ next_in = NoSchedArgs
    /\ wall_clock = SchedEpoch
    /\ next_calls = <<>>

\* no call of get_learning_session is in progress
SessOff ==
    /\ sess_pc = "off"
    /\ sess_in = NoSessionArgs
    /\ sess_out = <<>>

\* no learning session is held
LearnOff ==
    /\ learn_pc = "off"
    /\ fsm = NoSessionData
    /\ learn_events = 0
    /\ learn_committed = 0

ExtOff ==
    /\ PrioOff
    /\ NextOff
    /\ SessOff
    /\ LearnOff

InitCalc ==
    /\ InitDb
    /\ MixOff
    /\ ExtOff
    /\ calc_pc = "call"
    /\ \/ calc_in \in {CalcArgs(q, ef, iv, reps, now) :
                         q \in QualityInputs, ef \in EaseInputs,
                         iv \in 0..MAX_INTERVAL_DAYS, reps \in 0..MaxRepetitions,
                         now \in Times}
       \/ calc_in \in {CalcArgs(q, ef, iv, reps, now) :
                         q \in QualityInputs, ef \in LaterEaseInputs,
                         iv \in 0..MAX_INTERVAL_DAYS, reps \in 0..MaxRepetitions,
                         now \in LaterTimes}
    /\ calc_out = ValueError("pending")

Calculate ==
    /\ calc_pc = "call"
    /\ calc_out' = calculate_next_review(calc_in.quality, calc_in.ease_factor,
                                         calc_in.interval, calc_in.repetitions,
                                         calc_in.current_time)
    /\ calc_pc' = "returned"
    /\ UNCHANGED <<calc_in, dbvars, mixvars, extvars>>

NextCalc == Calculate

SpecCalc == InitCalc /\ [][NextCalc]_vars

(***************************************************************************)
(* SpecMix: mix_new_and_review_cards called directly on bounded arguments  *)
(***************************************************************************)
InitMix ==
    /\ InitDb
    /\ CalcOff
    /\ ExtOff
    /\ mix_pc = "call"
    /\ mix_in \in {MixArgs(NewCards(n), DueCards(d), nl, tl) :
                     n \in 0..MaxNewCards, d \in 0..MaxDueCards,
                     nl \in 0..MaxNewLimit, tl \in 0..MaxTotalLimit}
    /\ mix_out = <<>>

Mix ==
    /\ mix_pc = "call"
    /\ mix_out' = mix_new_and_review_cards(mix_in.new_cards, mix_in.review_cards,
                                           mix_in.new_cards_limit,
                                           mix_in.total_limit)
    /\ mix_pc' = "returned"
    /\ UNCHANGED <<mix_in, dbvars, calcvars, extvars>>

NextMix == Mix

SpecMix == InitMix /\ [][NextMix]_vars

(***************************************************************************)
(* Spec: quality-rating updates handled concurrently, each in its own      *)
(* database session (DatabaseMiddleware), against one PostgreSQL database  *)
(* at its default isolation level (read committed)                         *)
(***************************************************************************)
Init ==
    /\ InitDb
    /\ CalcOff
    /\ MixOff
    /\ ExtOff

\* another handler's transaction holds the row lock of the card
RowLocked(t, c) ==
    \E u \in Handlers : u # t /\ tx[u].flushed /\ tx[u].card_id = c

\* process_quality_rating is entered inside "async with get_session()"
BeginReview(t, card_id, user_id, quality, now) ==
    /\ tx[t].pc = "idle"
    /\ Len(reviews) < MaxReviews
    /\ tx' = [tx EXCEPT ![t] = [IdleHandler EXCEPT !.pc = "get",
                 !.card_id = card_id, !.user_id = user_id,
                 !.quality = quality, !.now = now]]
    /\ UNCHANGED <<cards, reviews, card_writes, content, calcvars, mixvars, extvars>>

\* card_repo.get_by_id, then the calculation, validation and attribute
\* assignments up to the flush
GetCard(t) ==
    /\ tx[t].pc = "get"
    /\ LET row == cards[tx[t].card_id]
           out == apply_review(row, tx[t].quality, tx[t].now)
       IN tx' = [tx EXCEPT ![t] = [@ EXCEPT
                    !.pc = IF out.error = "none" THEN "flush" ELSE "raise",
                    !.err = out.error, !.loaded = row, !.card = out.card,
                    !.before = out.before]]
    /\ UNCHANGED <<cards, reviews, card_writes, content, calcvars, mixvars, extvars>>

\* session.flush() emits the UPDATE, which waits for the row lock and then
\* holds it; session.refresh(card) reads the row back
FlushCard(t) ==
    /\ tx[t].pc = "flush"
    /\ ~RowLocked(t, tx[t].card_id)
    /\ tx' = [tx EXCEPT ![t] = [@ EXCEPT !.pc = "create", !.flushed = TRUE,
                 !.card = flush_row(cards[tx[t].card_id], tx[t].loaded, tx[t].card)]]
    /\ UNCHANGED <<cards, reviews, card_writes, content, calcvars, mixvars, extvars>>

\* variant: a failed INSERT is swallowed and the handler carries on
CreateReview_swallowed(t) ==
    /\ tx[t].pc = "create"
    /\ \E ok \in BOOLEAN :
         tx' = [tx EXCEPT ![t] =
                  IF ok
                  THEN [@ EXCEPT !.pc = "rest",
                           !.review = <<ReviewRecord(tx[t].card_id, tx[t].user_id,
                                          tx[t].quality, tx[t].now, tx[t].before)>>]
                  ELSE [@ EXCEPT !.pc = "rest"]]
    /\ UNCHANGED <<cards, reviews, card_writes, content, calcvars, mixvars, extvars>>

\* review_repo.create: the INSERT either succeeds or raises
CreateReview(t) ==
    /\ tx[t].pc = "create"
    /\ \E ok \in BOOLEAN :
         tx' = [tx EXCEPT ![t] =
                  IF ok
                  THEN [@ EXCEPT !.pc = "rest",
                           !.review = <<ReviewRecord(tx[t].card_id, tx[t].user_id,
                                          tx[t].quality, tx[t].now, tx[t].before)>>]
                  ELSE [@ EXCEPT !.pc = "raise", !.err = "DatabaseError"]]
    /\ UNCHANGED <<cards, reviews, card_writes, content, calcvars, mixvars, extvars>>

\* the rest of process_quality_rating (state update, next card, Telegram call),
\* which either returns or raises
HandlerRest(t) ==
    /\ tx[t].pc = "rest"
    /\ \E ok \in BOOLEAN :
         tx' = [tx EXCEPT ![t] =
                  IF ok THEN [@ EXCEPT !.pc = "commit"]
                  ELSE [@ EXCEPT !.pc = "raise", !.err = "HandlerError"]]
    /\ UNCHANGED <<cards, reviews, card_writes, content, calcvars, mixvars, extvars>>

\* get_session: the handler returned, session.commit() and close
Commit(t) ==
    /\ tx[t].pc = "commit"
    /\ cards' = IF tx[t].flushed
                THEN [cards EXCEPT ![tx[t].card_id] = tx[t].card]
                ELSE cards
    /\ card_writes' = IF tx[t].flushed
                      THEN [card_writes EXCEPT ![tx[t].card_id] = @ + 1]
                      ELSE card_writes
    /\ reviews' = reviews \o tx[t].review
    /\ tx' = [tx EXCEPT ![t] = IdleHandler]
    /\ UNCHANGED <<content, calcvars, mixvars, extvars>>

\* get_session: the handler raised, session.rollback(), re-raise and close
Rollback(t) ==
    /\ tx[t].pc = "raise"
    /\ tx' = [tx EXCEPT ![t] = IdleHandler]
    /\ UNCHANGED <<cards, reviews, card_writes, content, calcvars, mixvars, extvars>>

Next ==
    \/ \E t \in Handlers, c \in CardIds, u \in UserIds,
          q \in ReviewQualities, now \in Times : BeginReview(t, c, u, q, now)
    \/ \E t \in Handlers : GetCard(t)
    \/ \E t \in Handlers : FlushCard(t)
    \/ \E t \in Handlers : CreateReview(t)
    \/ \E t \in Handlers : HandlerRest(t)
    \/ \E t \in Handlers : Commit(t)
    \/ \E t \in Handlers : Rollback(t)

Spec == Init /\ [][Next]_vars

(***************************************************************************)
(* SpecCards: the operations on cards handled one at a time, each a whole  *)
(* unit of work that commits or rolls back before the next one starts      *)
(***************************************************************************)
InitCards ==
    /\ InitDb
    /\ CalcOff
    /\ MixOff
    /\ ExtOff

\* process_card_review in its session: a failing call is rolled back and
\* leaves the tables as they were
ReviewCard(card_id, user_id, quality, now) ==
    /\ Len(reviews) < MaxReviews
    /\ LET row == cards[card_id]
           out == apply_review(row, quality, now)
       IN IF out.error = "none"
          THEN /\ cards' = [cards EXCEPT ![card_id] = flush_row(row, row, out.card)]
               /\ reviews' = Append(reviews,
                      ReviewRecord(card_id, user_id, quality, now, out.before))
               /\ card_writes' = [card_writes EXCEPT ![card_id] = @ + 1]
          ELSE UNCHANGED <<cards, reviews, card_writes>>
    /\ UNCHANGED <<content, tx, calcvars, mixvars, extvars>>

\* CardService.update_card on a loaded card, committed
UpdateCard(card_id, front, back, example, notes, clear_example) ==
    /\ cards[card_id].exists
    /\ LET kwargs == update_data(front, back, example, notes, clear_example)
           loaded == card_instance(cards[card_id], content[card_id])
           card == IF DOMAIN kwargs # {} THEN repo_update(loaded, kwargs)
                   ELSE loaded
       IN /\ cards' = [cards EXCEPT ![card_id] =
                          [f \in DOMAIN cards[card_id] |-> card[f]]]
          /\ content' = [content EXCEPT ![card_id] =
                          [f \in DOMAIN content[card_id] |-> card[f]]]
    /\ UNCHANGED <<reviews, card_writes, tx, calcvars, mixvars, extvars>>

\* CardService.delete_card on a loaded card, committed: session.delete
\* cascades over Card.reviews ("all, delete-orphan"), and the foreign key of
\* reviews.card_id is ON DELETE CASCADE
DeleteCard(card_id) ==
    /\ cards[card_id].exists
    /\ cards' = [cards EXCEPT ![card_id] = NoCard]
    /\ content' = [content EXCEPT ![card_id] = NoContent]
    /\ reviews' = SelectSeq(reviews, LAMBDA r : r.card_id # card_id)
    /\ UNCHANGED <<card_writes, tx, calcvars, mixvars, extvars>>

NextCards ==
    \/ \E c \in CardIds, u \in UserIds, q \in ReviewQualities, now \in Times :
          ReviewCard(c, u, q, now)
    \/ \E c \in CardIds, front \in FrontInputs, back \in BackInputs,
          example \in ExampleInputs, notes \in NotesInputs,
          clear_example \in BOOLEAN :
          UpdateCard(c, front, back, example, notes, clear_example)
    \/ \E c \in CardIds : DeleteCard(c)

SpecCards == InitCards /\ [][NextCards]_vars

(***************************************************************************)
(* SpecPrio: prioritize_cards called directly on bounded lists of cards    *)
(***************************************************************************)
InitPrio ==
    /\ InitDb
    /\ CalcOff
    /\ MixOff
    /\ NextOff
    /\ SessOff
    /\ LearnOff
    /\ prio_pc = "call"
    /\ prio_in \in {SchedArgs(l, now) :
                      l \in SchedLists(MaxSchedLen), now \in SchedTimes}
    /\ prio_out = <<>>

Prioritize ==
    /\ prio_pc = "call"
    /\ prio_out' = prioritize_cards(prio_in.cards, prio_in.current_time)
    /\ prio_pc' = "returned"
    /\ UNCHANGED <<prio_in, dbvars, calcvars, mixvars, nextvars, sessvars, learnvars>>

NextPrio == Prioritize

SpecPrio == InitPrio /\ [][NextPrio]_vars

(***************************************************************************)
(* SpecNext: get_next_card_for_learning called with the same arguments at  *)
(* different moments of the machine's clock                                *)
(***************************************************************************)
MaxNextCalls == 2

InitNext ==
    /\ InitDb
    /\ CalcOff
    /\ MixOff
    /\ PrioOff
    /\ SessOff
    /\ LearnOff
    /\ next_pc = "on"
    /\ next_in \in {SchedArgs(l, now) :
                      l \in SchedLists(MaxDeckLen), now \in SchedTimes}
    /\ wall_clock = SchedEpoch
    /\ next_calls = <<>>

\* time passes on the machine
ClockTick ==
    /\ next_pc = "on"
    /\ wall_clock < SchedEpoch + MaxSchedTicks
    /\ wall_clock' = wall_clock + 1
    /\ UNCHANGED <<next_pc, next_in, next_calls, dbvars, calcvars, mixvars,
                   priovars, sessvars, learnvars>>

GetNextCard ==
    /\ next_pc = "on"
    /\ Len(next_calls) < MaxNextCalls
    /\ next_calls' = Append(next_calls,
           get_next_card_for_learning(next_in.cards, next_in.current_time,
                                      wall_clock))
    /\ UNCHANGED <<next_pc, next_in, wall_clock, dbvars, calcvars, mixvars,
                   priovars, sessvars, learnvars>>

NextNext ==
    \/ ClockTick
    \/ GetNextCard

SpecNext == InitNext /\ [][NextNext]_vars

(***************************************************************************)
(* SpecSession: get_learning_session called with its default limits on     *)
(* bounded decks                                                           *)
(***************************************************************************)
InitSession ==
    /\ InitDb
    /\ CalcOff
    /\ MixOff
    /\ PrioOff
    /\ NextOff
    /\ LearnOff
    /\ sess_pc = "call"
    /\ sess_in \in {SessionArgs(Deck(n, d), now) :
                      n \in 0..MaxDeckNew, d \in 0..MaxDeckReviewed,
                      now \in SchedTimes}
    /\ sess_out = <<>>

BuildSession ==
    /\ sess_pc = "call"
    /\ sess_out' = get_learning_session(sess_in.deck, DEFAULT_CARDS_PER_SESSION,
                                        MAX_NEW_CARDS_PER_DAY,
                                        sess_in.current_time)
    /\ sess_pc' = "returned"
    /\ UNCHANGED <<sess_in, dbvars, calcvars, mixvars, priovars, nextvars, learnvars>>

NextSession == BuildSession

SpecSession == InitSession /\ [][NextSession]_vars

(***************************************************************************)
(* SpecChain: one card rated again and again with the three buttons of the *)
(* answer keyboard, one review at a time                                   *)
(***************************************************************************)
MaxChain == 9

\* get_quality_rating_keyboard: Forgot, Remembered, Easy
ChainQualities == {QUALITY_AGAIN, QUALITY_GOOD, QUALITY_EASY}

InitChain ==
    /\ InitDb
    /\ CalcOff
    /\ MixOff
    /\ ExtOff

\* process_card_review on card 1 in its session, committed or rolled back
ReviewChain(quality, now) ==
    /\ Len(reviews) < MaxChain
    /\ LET row == cards[1]
           out == apply_review(row, quality, now)
       IN IF out.error = "none"
          THEN /\ cards' = [cards EXCEPT ![1] = flush_row(row, row, out.card)]
               /\ reviews' = Append(reviews,
                      ReviewRecord(1, 7, quality, now, out.before))
               /\ card_writes' = [card_writes EXCEPT ![1] = @ + 1]
          ELSE UNCHANGED <<cards, reviews, card_writes>>
    /\ UNCHANGED <<content, tx, calcvars, mixvars, extvars>>

NextChain == \E q \in ChainQualities, now \in Times : ReviewChain(q, now)

SpecChain == InitChain /\ [][NextChain]_vars

(***************************************************************************)
(* SpecLate: the concurrent handlers of Spec, on a card that has already   *)
(* been reviewed several times                                             *)
(***************************************************************************)
MaxLateReviews == 2

\* the ratings card 1 got before, one review at a time
LateHistory == <<QUALITY_EASY, QUALITY_EASY, QUALITY_EASY, QUALITY_GOOD,
                 QUALITY_EASY>>

\* the row of card 1 and the audit records after the ratings h, each
\* processed by process_card_review and committed or rolled back
RECURSIVE HistoryState(_)
HistoryState(h) ==
    IF h = <<>> THEN [card |-> NewCard, reviews |-> <<>>]
    ELSE LET prev == HistoryState(SubSeq(h, 1, Len(h) - 1))
             quality == h[Len(h)]
             out == apply_review(prev.card, quality, 1)
         IN IF out.error = "none"
            THEN [card |-> flush_row(prev.card, prev.card, out.card),
                  reviews |-> Append(prev.reviews,
                                 ReviewRecord(1, 7, quality, 1, out.before))]
            ELSE prev

InitLate ==
    /\ cards = [c \in CardIds |->
                   IF c = 1 THEN HistoryState(LateHistory).card ELSE NoCard]
    /\ reviews = HistoryState(LateHistory).reviews
    /\ card_writes = [c \in CardIds |->
                         IF c = 1 THEN Len(HistoryState(LateHistory).reviews)
                         ELSE 0]
    /\ content = [c \in CardIds |-> IF c = 1 THEN NewContent ELSE NoContent]
    /\ tx = [t \in Handlers |-> IdleHandler]
    /\ CalcOff
    /\ MixOff
    /\ ExtOff

\* process_quality_rating is entered inside "async with get_session()"
BeginLateReview(t, card_id, user_id, quality, now) ==
    /\ tx[t].pc = "idle"
    /\ Len(reviews) < Len(LateHistory) + MaxLateReviews
    /\ tx' = [tx EXCEPT ![t] = [IdleHandler EXCEPT !.pc = "get",
                 !.card_id = card_id, !.user_id = user_id,
                 !.quality = quality, !.now = now]]
    /\ UNCHANGED <<cards, reviews, card_writes, content, calcvars, mixvars,
                   extvars>>

NextLate ==
    \/ \E t \in Handlers, c \in CardIds, u \in UserIds,
          q \in ReviewQualities, now \in Times :
          BeginLateReview(t, c, u, q, now)
    \/ \E t \in Handlers : GetCard(t)
    \/ \E t \in Handlers : FlushCard(t)
    \/ \E t \in Handlers : CreateReview(t)
    \/ \E t \in Handlers : HandlerRest(t)
    \/ \E t \in Handlers : Commit(t)
    \/ \E t \in Handlers : Rollback(t)

SpecLate == InitLate /\ [][NextLate]_vars

(***************************************************************************)
(* SpecLearn: the updates of one user's learning session, handled one at a *)
(* time, each in its own database session that commits when the handler    *)
(* returns and rolls back when it raises; the FSM storage is written at     *)
(* once and is not part of that transaction                                 *)
(***************************************************************************)
InitLearn ==
    /\ cards = [c \in CardIds |-> NewCard]
    /\ reviews = <<>>
    /\ card_writes = [c \in CardIds |-> 0]
    /\ content = [c \in CardIds |-> NewContent]
    /\ tx = [t \in Handlers |-> IdleHandler]
    /\ CalcOff
    /\ MixOff
    /\ PrioOff
    /\ NextOff
    /\ SessOff
    /\ learn_pc = "on"
    /\ fsm = NoSessionData
    /\ learn_events = 0
    /\ learn_committed = 0

\* start_learning_session with a list of cards that is not empty
StartLearning(card_ids) ==
    /\ learn_pc = "on"
    /\ card_ids \in SessionCardIds(cards)
    /\ fsm' = show_card_front(
                  SessionData(card_ids, 0, 0, 0, fsm.current_card_id), cards).data
    /\ learn_events' = 0
    /\ learn_committed' = 0
    /\ UNCHANGED <<learn_pc, dbvars, calcvars, mixvars, priovars, nextvars,
                   sessvars>>

\* process_quality_rating: the review, the update of the session data, then
\* show_card_front, whose Telegram call succeeds (ok) or raises
RateCard(quality, now, ok) ==
    /\ learn_pc = "on"
    /\ fsm.active
    /\ learn_events < MaxLearnEvents
    /\ Len(reviews) < MaxLearnReviews
    /\ LET card_id == fsm.current_card_id
           row == cards[card_id]
           out == apply_review(row, quality, now)
           written == [cards EXCEPT ![card_id] = flush_row(row, row, out.card)]
           shown == show_card_front(
                        [fsm EXCEPT !.current_index = @ + 1,
                                    !.cards_reviewed = @ + 1,
                                    !.correct_count =
                                        IF quality >= 3 THEN @ + 1 ELSE @],
                        written)
       IN IF out.error # "none"
          THEN /\ learn_events' = learn_events + 1
               /\ UNCHANGED <<fsm, learn_committed, cards, reviews, card_writes>>
          ELSE /\ fsm' = shown.data
               /\ learn_events' = learn_events + 1 + shown.skips
               /\ IF ok
                  THEN /\ cards' = written
                       /\ reviews' = Append(reviews,
                              ReviewRecord(card_id, 7, quality, now, out.before))
                       /\ card_writes' = [card_writes EXCEPT ![card_id] = @ + 1]
                       /\ learn_committed' = learn_committed + 1
                  ELSE UNCHANGED <<learn_committed, cards, reviews, card_writes>>
    /\ UNCHANGED <<learn_pc, content, tx, calcvars, mixvars, priovars, nextvars,
                   sessvars>>

\* end_learning_session on the "end_session" button
EndSession ==
    /\ learn_pc = "on"
    /\ fsm.active
    /\ fsm' = NoSessionData
    /\ UNCHANGED <<learn_pc, learn_events, learn_committed, dbvars, calcvars,
                   mixvars, priovars, nextvars, sessvars>>

NextLearn ==
    \/ \E card_ids \in CardIdLists : StartLearning(card_ids)
    \/ \E q \in ChainQualities, now \in Times, ok \in BOOLEAN :
          RateCard(q, now, ok)
    \/ EndSession
    \/ \E c \in CardIds : DeleteCard(c)

SpecLearn == InitLearn /\ [][NextLearn]_vars

(***************************************************************************)
(* Properties of the review transaction (Spec)                             *)
(***************************************************************************)
\* the committed audit records of one card, oldest first
ReviewsOf(c) == SelectSeq(reviews, LAMBDA r : r.card_id = c)

\* the errors process_card_review raises itself
CoreErrors == {"CardNotFound", "InvalidQuality", "InvalidResult"}

\* the handler's call of process_card_review has returned the card
Returned(t) == tx[t].pc \in {"create", "rest", "commit"}

\* the calculator's result for the card state the call loaded
ResultFor(t) ==
    calculate_next_review(tx[t].quality, tx[t].loaded.ease_factor,
                          tx[t].loaded.interval, tx[t].loaded.repetitions,
                          tx[t].now)

\* C1: a review with a quality in {0,3,5} of a card reached from a fresh card
\* by reviews never fails with InvalidResult.
C1_NeverInvalidResult ==
    \A t \in Handlers :
        (tx[t].pc = "raise" /\ tx[t].quality \in {0, 3, 5})
            => tx[t].err # "InvalidResult"

\* C2: in every committed database state each card has as many committed
\* card updates as committed audit records: a unit of work commits both its
\* card update and its audit record, or neither.
C2_UpdateAndAuditTogether ==
    \A c \in CardIds : card_writes[c] = Len(ReviewsOf(c))

\* C2 witness: a unit of work failed after its card update was flushed, with
\* earlier reviews already committed.
C2_Witness ==
    \E t \in Handlers :
        /\ tx[t].pc = "raise" /\ tx[t].flushed
        /\ tx[t].err \in {"DatabaseError", "HandlerError"}
        /\ Len(ReviewsOf(tx[t].card_id)) >= 1

\* C3: committed reviews of one card are equivalent to a serial order: the
\* card's totalReviews counts every committed record, and each record's
\* before-snapshot of the ease factor is the result of the record before it.
C3_SerialReviews ==
    \A c \in CardIds :
        LET log == ReviewsOf(c) IN
        /\ cards[c].total_reviews = Len(log)
        /\ \A i \in 1..(Len(log) - 1) :
              log[i + 1].ease_factor_before =
                  calculate_next_review(log[i].quality, log[i].ease_factor_before,
                      log[i].interval_before, 0, 0).ease_factor

\* C4: a step in which process_card_review raises CardNotFound,
\* InvalidQuality or InvalidResult leaves the card object as loaded, with
\* nothing flushed and no audit record, and neither that step nor the
\* rollback after it changes the committed cards or reviews.
C4_FailureWritesNothing ==
    [][\A t \in Handlers :
          /\ (tx[t].pc = "get" /\ tx'[t].pc = "raise")
                => /\ tx'[t].err \in CoreErrors
                   /\ tx'[t].card = tx'[t].loaded
                   /\ ~tx'[t].flushed
                   /\ tx'[t].review = <<>>
                   /\ cards' = cards /\ reviews' = reviews
          /\ (tx[t].pc = "raise" /\ tx[t].err \in CoreErrors /\ tx'[t].pc = "idle")
                => (cards' = cards /\ reviews' = reviews)
          /\ (tx[t].pc = "get" /\ tx'[t].pc # "raise" /\ tx'[t].pc # "get")
                => /\ cards[tx[t].card_id].exists
                   /\ tx[t].quality \in AcceptedQualities]_vars

\* C4 witness: a review of an already reviewed card failed with InvalidResult.
C4_Witness ==
    \E t \in Handlers :
        /\ tx[t].pc = "raise" /\ tx[t].err = "InvalidResult"
        /\ cards[tx[t].card_id].total_reviews >= 1

\* C5: once process_card_review has returned, the card carries exactly the
\* calculator's result for the state the call loaded, totalReviews one more
\* than loaded, and correctReviews one more exactly when quality >= 3.
C5_ReviewAppliesResult ==
    \A t \in Handlers :
        Returned(t) =>
            /\ tx[t].card.ease_factor = ResultFor(t).ease_factor
            /\ tx[t].card.interval = ResultFor(t).interval
            /\ tx[t].card.repetitions = ResultFor(t).repetitions
            /\ tx[t].card.next_review = ResultFor(t).next_review
            /\ tx[t].card.total_reviews = tx[t].loaded.total_reviews + 1
            /\ tx[t].card.correct_reviews =
                  tx[t].loaded.correct_reviews + (IF tx[t].quality >= 3 THEN 1 ELSE 0)

\* the audit record a successful review of handler t has to leave
ExpectedReview(t) ==
    [card_id |-> tx[t].card_id, user_id |-> tx[t].user_id,
     quality |-> tx[t].quality, reviewed_at |-> tx[t].now,
     ease_factor_before |-> tx[t].loaded.ease_factor,
     interval_before |-> tx[t].loaded.interval]

\* C6: the reviews table changes only when a successful review commits, and
\* then by exactly one appended record, which names the card and the user and
\* carries the quality, the review time and the ease factor and interval the
\* card had when the call loaded it.
C6_OneAuditRecord ==
    [][(reviews' # reviews \/ \E t \in Handlers : tx[t].pc = "commit" /\ tx'[t].pc = "idle")
          => \E t \in Handlers :
                /\ tx[t].pc = "commit" /\ tx'[t].pc = "idle"
                /\ reviews' = Append(reviews, ExpectedReview(t))]_vars

\* C6 witness: a committed record whose snapshot differs from what the card
\* holds now.
C6_Witness ==
    /\ Len(reviews) >= 2
    /\ reviews[Len(reviews)].ease_factor_before # cards[reviews[Len(reviews)].card_id].ease_factor
    /\ reviews[Len(reviews)].interval_before # cards[reviews[Len(reviews)].card_id].interval
    /\ reviews[Len(reviews)].interval_before > 0

RECURSIVE SuccessRun(_)
\* the number of records with quality >= 3 at the end of a card's log, back
\* to its most recent Forgot record or to its beginning
SuccessRun(log) ==
    IF log = <<>> THEN 0
    ELSE IF log[Len(log)].quality >= 3
    THEN 1 + SuccessRun(SubSeq(log, 1, Len(log) - 1))
    ELSE 0

\* C13: in every committed state, a card's repetitions is the number of
\* consecutive reviews with quality >= 3 committed since its most recent
\* Forgot review, or since creation if it has none.
C13_RepetitionsCountSuccesses ==
    \A c \in CardIds :
        cards[c].exists => cards[c].repetitions = SuccessRun(ReviewsOf(c))

\* C14: in every committed state, a card has repetitions = 0 exactly when
\* its totalReviews is 0 and no audit record references it.
C14_NewIffNeverReviewed ==
    \A c \in CardIds :
        cards[c].exists =>
            (cards[c].repetitions = 0
                <=> (cards[c].total_reviews = 0 /\ ReviewsOf(c) = <<>>))

\* C16: no step lowers a card's totalReviews or correctReviews, and
\* correctReviews <= totalReviews before and after every step.
C16_CountersMonotone ==
    [][\A c \in CardIds :
          /\ cards'[c].total_reviews >= cards[c].total_reviews
          /\ cards'[c].correct_reviews >= cards[c].correct_reviews
          /\ cards[c].correct_reviews <= cards[c].total_reviews
          /\ cards'[c].correct_reviews <= cards'[c].total_reviews]_vars

(***************************************************************************)
(* Properties of calculate_next_review (SpecCalc)                          *)
(***************************************************************************)
CalcReturned == calc_pc = "returned"

\* the arguments satisfy the card invariants
ValidCardState ==
    /\ calc_in.ease_factor >= 1300
    /\ calc_in.interval >= 0 /\ calc_in.interval <= 365
    /\ calc_in.repetitions >= 0

\* C7: for a quality in {0,3,5} and a card state within the invariants, the
\* call returns a result with 0 <= interval' <= 365 and easeFactor' >= 1.3.
C7_ResultWithinBounds ==
    (CalcReturned /\ calc_in.quality \in {0, 3, 5} /\ ValidCardState)
        => /\ calc_out.error = "none"
           /\ calc_out.interval >= 0 /\ calc_out.interval <= 365
           /\ calc_out.ease_factor >= 1300

\* C7 witness: an Easy review whose uncapped interval is above 365 days.
C7_Witness ==
    /\ CalcReturned /\ ValidCardState
    /\ calc_in.quality = 5 /\ calc_in.repetitions >= 1 /\ calc_in.interval = 300
    /\ calc_out.interval = 365 /\ calc_out.error = "none"

\* C8: the call raises the invalid-quality error for every quality outside
\* {0,3,5}.
C8_InvalidQualityRaises ==
    (CalcReturned /\ calc_in.quality \notin {0, 3, 5})
        => calc_out.error = "InvalidQuality"

\* C9, as stated: for Easy, easeFactor' = easeFactor + 0.15; a first review
\* gives interval 4 and repetitions 1; otherwise the interval is
\* floor(interval * (easeFactor + 0.15) * 1.3), capped at 365.
C9_EasyWithOverriddenEase ==
    (CalcReturned /\ calc_in.quality = 5)
        => /\ calc_out.error = "none"
           /\ calc_out.ease_factor = calc_in.ease_factor + 150
           /\ IF calc_in.repetitions = 0
              THEN calc_out.interval = 4 /\ calc_out.repetitions = 1
              ELSE /\ calc_out.interval =
                        Min((calc_in.interval * (calc_in.ease_factor + 150) * 13)
                                \div 10000, 365)
                   /\ calc_out.repetitions = calc_in.repetitions + 1

\* C9, amended: as above, but the interval of a later Easy review is
\* floor(interval * max(easeFactor + 0.10, 1.3) * 1.3), the SM-2 candidate
\* and not the overridden easeFactor', capped at 365.
C9_EasyWithCandidateEase ==
    (CalcReturned /\ calc_in.quality = 5)
        => /\ calc_out.error = "none"
           /\ calc_out.ease_factor = calc_in.ease_factor + 150
           /\ IF calc_in.repetitions = 0
              THEN calc_out.interval = 4 /\ calc_out.repetitions = 1
              ELSE /\ calc_out.interval =
                        Min((calc_in.interval * Max(calc_in.ease_factor + 100, 1300) * 13)
                                \div 10000, 365)
                   /\ calc_out.repetitions = calc_in.repetitions + 1

\* C9 witness: a later Easy review, below the cap, whose interval is not the
\* one the overridden ease factor would give.
C9_Witness ==
    /\ CalcReturned /\ calc_in.quality = 5 /\ calc_in.repetitions >= 1
    /\ calc_out.interval < 365
    /\ calc_out.interval #
          (calc_in.interval * (calc_in.ease_factor + 150) * 13) \div 10000

\* C10: for Remembered, easeFactor' = max(easeFactor - 0.14, 1.3); a first
\* review gives interval 1 and repetitions 1, a second interval 6 and
\* repetitions 2, a later one floor(interval * easeFactor') and
\* repetitions + 1; the interval is capped at 365.
C10_Remembered ==
    (CalcReturned /\ calc_in.quality = 3)
        => /\ calc_out.error = "none"
           /\ calc_out.ease_factor = Max(calc_in.ease_factor - 140, 1300)
           /\ IF calc_in.repetitions = 0
              THEN calc_out.interval = 1 /\ calc_out.repetitions = 1
              ELSE IF calc_in.repetitions = 1
              THEN calc_out.interval = 6 /\ calc_out.repetitions = 2
              ELSE /\ calc_out.interval =
                        Min((calc_in.interval * calc_out.ease_factor) \div 1000, 365)
                   /\ calc_out.repetitions = calc_in.repetitions + 1

\* C10 witness: a later Remembered review whose ease factor hits the floor
\* and whose interval is a rounded-down product.
C10_Witness ==
    /\ CalcReturned /\ calc_in.quality = 3 /\ calc_in.repetitions >= 2
    /\ calc_in.ease_factor = 1400 /\ calc_out.ease_factor = 1300
    /\ calc_in.interval = 7 /\ calc_out.interval = 9

\* C11: for Forgot (0) the call returns interval' = 0 and repetitions' = 0
\* whatever the prior interval and repetitions, and
\* easeFactor' = max(easeFactor - 0.15, 1.3).
C11_ForgotResets ==
    (CalcReturned /\ calc_in.quality = 0)
        => /\ calc_out.error = "none"
           /\ calc_out.interval = 0
           /\ calc_out.repetitions = 0
           /\ calc_out.ease_factor = Max(calc_in.ease_factor - 150, 1300)

\* C11 witness: a Forgot review of a card with a long interval and earlier
\* successes, whose ease factor is held at the floor.
C11_Witness ==
    /\ CalcReturned /\ calc_in.quality = 0
    /\ calc_in.interval = 200 /\ calc_in.repetitions >= 2
    /\ calc_in.ease_factor = 1400
    /\ calc_out.interval = 0 /\ calc_out.repetitions = 0
    /\ calc_out.ease_factor = 1300

\* C12: in every branch nextReview' is the injected now plus exactly
\* interval' days, interval' being the interval after the cap at 365.
C12_NextReviewFromNow ==
    (CalcReturned /\ calc_out.error = "none")
        => /\ calc_out.next_review = calc_in.current_time + calc_out.interval
           /\ calc_out.interval <= 365

\* C12 witness: a capped Remembered review at the later injected time.
C12_Witness ==
    /\ CalcReturned /\ calc_in.quality = 3 /\ calc_in.repetitions >= 2
    /\ calc_in.interval = 365 /\ calc_in.ease_factor = 2500
    /\ calc_in.current_time = 8
    /\ calc_out.interval = 365 /\ calc_out.next_review = 373

(***************************************************************************)
(* Properties of the card operations (SpecCards)                           *)
(***************************************************************************)
\* C15: a committed audit record is never mutated or deleted: after every
\* step the log still begins with the records it held before, unchanged.
C15_AuditLogAppendOnly ==
    [][/\ Len(reviews') >= Len(reviews)
       /\ SubSeq(reviews', 1, Len(reviews)) = reviews]_vars

\* the SRS fields and counters of a card that exists
SrsFields(c) ==
    <<cards[c].ease_factor, cards[c].interval, cards[c].repetitions,
      cards[c].next_review, cards[c].total_reviews, cards[c].correct_reviews>>

\* C17: a step that changes the SRS fields or counters of a card existing
\* before and after it is a review of that card (it appends the card's audit
\* record), and a step that changes the card's content leaves them all
\* unchanged.
C17_OnlyReviewChangesSrs ==
    [][\A c \in CardIds :
          (cards[c].exists /\ cards'[c].exists) =>
              /\ SrsFields(c)' # SrsFields(c)
                    => /\ reviews' # reviews
                       /\ SubSeq(reviews', 1, Len(reviews)) = reviews
                       /\ reviews'[Len(reviews')].card_id = c
                       /\ content' = content
              /\ content'[c] # content[c] => cards'[c] = cards[c]]_vars

\* C17 witness: a card reviewed twice, with a schedule other than a fresh
\* card's, whose four texts were all replaced.
C17_Witness ==
    /\ cards[1].exists /\ cards[1].total_reviews >= 2
    /\ cards[1].interval > 0 /\ cards[1].ease_factor # DEFAULT_EASE_FACTOR
    /\ Len(ReviewsOf(1)) >= 2
    /\ content[1] = ContentRow("f1", "b1", "e1", "n1")

(***************************************************************************)
(* Properties of mix_new_and_review_cards (SpecMix)                        *)
(***************************************************************************)
MixReturned == mix_pc = "returned"

\* the number of entries of a list that are new cards, and that are due cards
NewCount(s) == Cardinality({i \in DOMAIN s : s[i].repetitions = 0})
DueCount(s) == Cardinality({i \in DOMAIN s : s[i].repetitions > 0})

\* the new cards of a list in their order, and its due cards in theirs
NewOf(s) == SelectSeq(s, LAMBDA c : c.repetitions = 0)
DueOf(s) == SelectSeq(s, LAMBDA c : c.repetitions > 0)

\* C18: when len(newCards) <= newLimit and len(newCards) + len(dueCards) <=
\* totalLimit, the result holds every supplied card exactly once, each list
\* in its own order, and the k-th new card comes after exactly min(3k, d)
\* due cards: up to 3 due cards, then 1 new card, until both are exhausted.
C18_MixInterleavesAll ==
    (/\ MixReturned
     /\ Len(mix_in.new_cards) <= mix_in.new_cards_limit
     /\ Len(mix_in.new_cards) + Len(mix_in.review_cards) <= mix_in.total_limit)
        => /\ Len(mix_out) = Len(mix_in.new_cards) + Len(mix_in.review_cards)
           /\ NewOf(mix_out) = mix_in.new_cards
           /\ DueOf(mix_out) = mix_in.review_cards
           /\ \A i \in DOMAIN mix_out :
                 mix_out[i].repetitions = 0 =>
                     DueCount(SubSeq(mix_out, 1, i)) =
                         Min(REVIEWS_PER_NEW * NewCount(SubSeq(mix_out, 1, i)),
                             Len(mix_in.review_cards))

\* C18 witness: N1..N5 and D1..D9 with limits 5 and 20 give
\* D1,D2,D3,N1,D4,D5,D6,N2,D7,D8,D9,N3,N4,N5.
C18_Witness ==
    /\ MixReturned
    /\ mix_in = MixArgs(NewCards(5), DueCards(9), 5, 20)
    /\ [i \in DOMAIN mix_out |-> mix_out[i].id]
          = <<1, 2, 3, 101, 4, 5, 6, 102, 7, 8, 9, 103, 104, 105>>

\* C19: for all lists and all limits >= 0, also newLimit > totalLimit, the
\* result has at most totalLimit entries and at most newLimit new cards.
C19_MixWithinLimits ==
    MixReturned
        => /\ Len(mix_out) <= mix_in.total_limit
           /\ NewCount(mix_out) <= mix_in.new_cards_limit

\* C19 witness: newLimit above totalLimit with more cards than either limit,
\* and a result that fills the total limit.
C19_Witness ==
    /\ MixReturned
    /\ mix_in.new_cards_limit > mix_in.total_limit
    /\ Len(mix_in.new_cards) > mix_in.total_limit
    /\ Len(mix_in.review_cards) > mix_in.total_limit
    /\ mix_in.total_limit >= 4
    /\ Len(mix_out) = mix_in.total_limit
    /\ NewCount(mix_out) >= 1

\* C20: the due cards of the result number at most
\* max(0, totalLimit - |selectedNew|), selectedNew being the first newLimit
\* new cards, also when |selectedNew| exceeds totalLimit.
C20_DueWithinRemainingSlots ==
    MixReturned
        => DueCount(mix_out)
              <= Max(0, mix_in.total_limit
                          - Min(Len(mix_in.new_cards), mix_in.new_cards_limit))

(***************************************************************************)
(* Properties of the card scheduler (SpecPrio, SpecNext)                   *)
(***************************************************************************)
PrioReturned == prio_pc = "returned"

AllReviewed(l) == \A i \in DOMAIN l : l[i].repetitions > 0
AllNew(l) == \A i \in DOMAIN l : l[i].repetitions = 0

IsPermutation(out, inp) ==
    /\ Len(out) = Len(inp)
    /\ {out[i] : i \in DOMAIN out} = {inp[i] : i \in DOMAIN inp}

\* the score of a reviewed card in whole seconds: minus the seconds it is
\* overdue, or the seconds until its next review
ReviewedScore(card, now) ==
    IF now > card.next_review
    THEN -((now - card.next_review) \div TicksPerSecond)
    ELSE (card.next_review - now) \div TicksPerSecond

\* C21: for a list of reviewed cards only, prioritize_cards returns a
\* permutation of the list in ascending order of the score (minus the whole
\* seconds overdue, or the whole seconds until the next review), which is
\* ascending next_review order except between cards of equal score
C21_ReviewedOldestOverdueFirst ==
    (PrioReturned /\ AllReviewed(prio_in.cards)) =>
        /\ IsPermutation(prio_out, prio_in.cards)
        /\ \A i, j \in DOMAIN prio_out :
              i < j =>
                 LET si == ReviewedScore(prio_out[i], prio_in.current_time)
                     sj == ReviewedScore(prio_out[j], prio_in.current_time)
                 IN /\ si <= sj
                    /\ \/ prio_out[i].next_review <= prio_out[j].next_review
                       \/ si = sj

\* three reviewed cards, overdue and not yet due, of three different scores
\* were given in another order than the one returned
C21_Witness ==
    /\ PrioReturned
    /\ AllReviewed(prio_in.cards)
    /\ Len(prio_in.cards) = 3
    /\ prio_out # prio_in.cards
    /\ Cardinality({ReviewedScore(prio_in.cards[i], prio_in.current_time) :
                       i \in DOMAIN prio_in.cards}) = 3
    /\ \E i \in DOMAIN prio_in.cards :
          prio_in.cards[i].next_review < prio_in.current_time
    /\ \E i \in DOMAIN prio_in.cards :
          prio_in.cards[i].next_review > prio_in.current_time

\* C22: for a list of new cards only, prioritize_cards returns a card created
\* earlier before a card created later (cards created within the same whole
\* second in any order)
C22_OlderNewCardsFirst ==
    (PrioReturned /\ AllNew(prio_in.cards)) =>
        \A i, j \in DOMAIN prio_out :
           i < j =>
              \/ prio_out[i].created_at <= prio_out[j].created_at
              \/ prio_out[i].created_at \div TicksPerSecond
                    = prio_out[j].created_at \div TicksPerSecond

\* 0 for a reviewed card overdue by a second or more, 1 for a new card, 2 for
\* a reviewed card due in a second or more, 3 for a card due within a second
KindRank(card, now) ==
    IF card.repetitions = 0 THEN 1
    ELSE IF now - card.next_review >= TicksPerSecond THEN 0
    ELSE IF card.next_review - now >= TicksPerSecond THEN 2
    ELSE 3

\* C23: in the list prioritize_cards returns, every overdue reviewed card
\* comes before every new card, and every new card before every reviewed card
\* that is not yet due
C23_OverdueThenNewThenDue ==
    PrioReturned =>
        \A i, j \in DOMAIN prio_out :
           LET ki == KindRank(prio_out[i], prio_in.current_time)
               kj == KindRank(prio_out[j], prio_in.current_time)
           IN (i < j /\ ki # 3 /\ kj # 3) => ki <= kj

\* C24: calls of get_next_card_for_learning with the same cards and the same
\* current_time return the same card, whatever the clock of the machine shows
\* when each call is made
C24_NextCardFromArgumentsOnly ==
    \A i, j \in DOMAIN next_calls : next_calls[i] = next_calls[j]

(***************************************************************************)
(* Properties of the card states that reviews lead to (SpecChain)          *)
(***************************************************************************)
\* what rating the stored card 1 Remembered, or Easy, would give
RememberedNow ==
    calculate_next_review(QUALITY_GOOD, cards[1].ease_factor, cards[1].interval,
                          cards[1].repetitions, 1)
EasyNow ==
    calculate_next_review(QUALITY_EASY, cards[1].ease_factor, cards[1].interval,
                          cards[1].repetitions, 1)

\* the qualities of the reviews committed so far
QualityLog == [i \in DOMAIN reviews |-> reviews[i].quality]

\* C25 as stated: from every card state with repetitions >= 2 that reviews
\* lead to, Easy gives a strictly longer interval than Remembered
C25_EasyStrictlyLonger ==
    cards[1].repetitions >= 2 => EasyNow.interval > RememberedNow.interval

\* C25: from every card state with repetitions >= 2 and an interval of at
\* least 2 days that reviews lead to, Easy gives an interval at least as long
\* as Remembered, and a strictly longer one unless Remembered already gives
\* the maximum of 365 days
C25_EasyLongerBelowCap ==
    (cards[1].repetitions >= 2 /\ cards[1].interval >= 2) =>
        /\ EasyNow.interval >= RememberedNow.interval
        /\ RememberedNow.interval < MAX_INTERVAL_DAYS =>
              EasyNow.interval > RememberedNow.interval

\* after Easy, Easy, Easy, Remembered both ratings give the maximum
C25_Witness ==
    /\ QualityLog = <<5, 5, 5, 3>>
    /\ cards[1].repetitions = 4
    /\ cards[1].interval >= 2
    /\ RememberedNow.interval = MAX_INTERVAL_DAYS
    /\ EasyNow.interval = MAX_INTERVAL_DAYS

\* C26: from every card state with repetitions >= 2 and an interval below 365
\* that reviews lead to, Remembered gives a strictly longer interval
C26_RememberedIncreases ==
    (cards[1].repetitions >= 2 /\ cards[1].interval < MAX_INTERVAL_DAYS) =>
        RememberedNow.interval > cards[1].interval

\* C28: in every card state that reviews of a freshly created card lead to,
\* the interval is 0 exactly when repetitions is 0
C28_IntervalZeroIffNew ==
    \A c \in CardIds :
       cards[c].exists => (cards[c].interval = 0 <=> cards[c].repetitions = 0)

(***************************************************************************)
(* Properties of the learning session (SpecSession)                        *)
(***************************************************************************)
\* C27: with the default limits of 20 cards and 20 new cards, whenever the
\* deck has a due card (reviewed, next_review not after now) the session that
\* get_learning_session returns contains a due card, however many new cards
\* the deck has
C27_SessionHasDueCard ==
    (/\ sess_pc = "returned"
     /\ get_due_cards(sess_in.deck, sess_in.deck.reviewed,
                      sess_in.current_time) # <<>>) =>
        \E i \in DOMAIN sess_out : sess_out[i].repetitions > 0

(***************************************************************************)
(* Properties of the learning session in the FSM storage (SpecLearn)       *)
(***************************************************************************)
\* C29: every rating with quality 0, 3 or 5 and every skip of a card that no
\* longer exists advances current_index by exactly one, so that while the
\* session data exists current_index is the number of these events, and after
\* as many events as the session has cards the data has been cleared
C29_EveryEventAdvances ==
    fsm.active =>
        /\ fsm.current_index = learn_events
        /\ learn_events < Len(fsm.card_ids)

\* C30: cards_reviewed in the session data is the number of audit records
\* committed for the ratings of the session, also after a handler whose
\* Telegram call failed
C30_ReviewedMatchesAudit ==
    fsm.active => fsm.cards_reviewed = learn_committed
====
